---- MODULE Spec2Model ----
(***************************************************************************)
(* Model of core/templates/domain/statistics/learner-action.model.ts:      *)
(* the learner-action classes, the three factory entry points,             *)
(* createFromBackendDict and toBackendDict, over a heap of JavaScript      *)
(* objects.  Customization-args objects live in argsHeap and are held by   *)
(* reference, so that sharing between an action, a backend dict and the    *)
(* caller's own variable is visible.                                       *)
(***************************************************************************)
EXTENDS Integers, Sequences, FiniteSets, TLC

VARIABLES
  latestVersion,  \* StatisticsDomainConstants.LEARNER_ACTION_SCHEMA_LATEST_VERSION
  argsHeap,       \* the customization-args objects, by reference
  actions,        \* the LearnerAction objects
  dicts,          \* the backend dict objects
  actionLog,      \* per action: the call that made it and what it returned
  dictLog,        \* per dict: the call that made it and the action it read
  thrown          \* the Error the last step threw, if it threw

vars == <<latestVersion, argsHeap, actions, dicts, actionLog, dictLog, thrown>>

----------------------------------------------------------------------------
(* Bounds of the model.                                                    *)

\* Objects on the heap: customization-args objects, actions and dicts.
MaxObjects == 4
\* Customization-args objects the callers build.
MaxArgs == 2
\* Dictionaries that arrive from the backend.
MaxBackendDicts == 1
\* Schema versions range over 1..MaxVersion, the last of them the latest.
MaxVersion == 2

----------------------------------------------------------------------------
(* Types of the source.                                                    *)

ExplorationStart == "ExplorationStart"
AnswerSubmit == "AnswerSubmit"
ExplorationQuit == "ExplorationQuit"

LearnerActionType == {ExplorationStart, AnswerSubmit, ExplorationQuit}

\* action_type values a dictionary received at run time can carry.
WireActionTypes == LearnerActionType \cup {"Unknown"}

Strings == {"S1", "S2"}
Numbers == {0, 1500}

Str(s) == [t |-> "string", s |-> s, n |-> 0]
Num(n) == [t |-> "number", s |-> "", n |-> n]

\* A JSON value of a customization-args field: the leaf under `wraps`
\* nested {value: ...} objects.  {value: "S1"} is Json(1, Str("S1")).
Json(wraps, leaf) == [wraps |-> wraps, leaf |-> leaf]

ExplorationStartCustomizationArgs == {"state_name"}

AnswerSubmitCustomizationArgs ==
  {"state_name", "dest_state_name", "interaction_id", "submitted_answer",
   "feedback", "time_spent_state_in_msecs"}

ExplorationQuitCustomizationArgs ==
  {"state_name", "time_spent_in_state_in_msecs"}

NumberFields == {"time_spent_state_in_msecs", "time_spent_in_state_in_msecs"}

ActionCustomizationArgs(ActionType) ==
  IF ActionType = ExplorationStart THEN ExplorationStartCustomizationArgs
  ELSE IF ActionType = AnswerSubmit THEN AnswerSubmitCustomizationArgs
  ELSE IF ActionType = ExplorationQuit THEN ExplorationQuitCustomizationArgs
  ELSE {}

\* The static type check of a customization-args object against a kind:
\* exactly the kind's fields, each a {value: string} or {value: number}.
WellTyped(ActionType, args) ==
  /\ ActionType \in LearnerActionType
  /\ DOMAIN args = ActionCustomizationArgs(ActionType)
  /\ \A f \in DOMAIN args :
       /\ args[f].wraps = 1
       /\ args[f].leaf.t = (IF f \in NumberFields THEN "number" ELSE "string")

----------------------------------------------------------------------------
(* Classes and functions of the source.                                    *)

LearnerActionBase(cls, actionType, actionCustomizationArgs, schemaVersion) ==
  [cls |-> cls,
   actionType |-> actionType,
   actionCustomizationArgs |-> actionCustomizationArgs,
   schemaVersion |-> schemaVersion]

\* Mutant: actionType declared without `readonly`.
WritableFields_NoReadonly ==
  {"actionType", "actionCustomizationArgs", "schemaVersion"}

\* Fields of an action that an assignment can write (the others are readonly).
WritableFields == {"actionCustomizationArgs", "schemaVersion"}

\* Mutant: the stored schema version is not emitted, the dict carries 1.
toBackendDict_DropsVersion(this) ==
  [action_type |-> this.actionType,
   action_customization_args |-> this.actionCustomizationArgs,
   schema_version |-> 1]

toBackendDict(this) ==
  [action_type |-> this.actionType,
   action_customization_args |-> this.actionCustomizationArgs,
   schema_version |-> this.schemaVersion]

ExplorationStartLearnerAction(actionType, actionCustomizationArgs, schemaVersion) ==
  LearnerActionBase("ExplorationStartLearnerAction", actionType,
                    actionCustomizationArgs, schemaVersion)

AnswerSubmitLearnerAction(actionType, actionCustomizationArgs, schemaVersion) ==
  LearnerActionBase("AnswerSubmitLearnerAction", actionType,
                    actionCustomizationArgs, schemaVersion)

ExplorationQuitLearnerAction(actionType, actionCustomizationArgs, schemaVersion) ==
  LearnerActionBase("ExplorationQuitLearnerAction", actionType,
                    actionCustomizationArgs, schemaVersion)

LEARNER_ACTION_SCHEMA_LATEST_VERSION == latestVersion

createNewExplorationStartAction(actionCustomizationArgs) ==
  ExplorationStartLearnerAction(
    ExplorationStart, actionCustomizationArgs,
    LEARNER_ACTION_SCHEMA_LATEST_VERSION)

\* Mutant: the schema version is hard-coded instead of read.
createNewAnswerSubmitAction_HardCoded(actionCustomizationArgs) ==
  AnswerSubmitLearnerAction(AnswerSubmit, actionCustomizationArgs, 1)

createNewAnswerSubmitAction(actionCustomizationArgs) ==
  AnswerSubmitLearnerAction(
    AnswerSubmit, actionCustomizationArgs,
    LEARNER_ACTION_SCHEMA_LATEST_VERSION)

\* Mutant: the body of the AnswerSubmit entry point pasted unchanged.
createNewExplorationQuitAction_Pasted(actionCustomizationArgs) ==
  AnswerSubmitLearnerAction(
    AnswerSubmit, actionCustomizationArgs,
    LEARNER_ACTION_SCHEMA_LATEST_VERSION)

createNewExplorationQuitAction(actionCustomizationArgs) ==
  ExplorationQuitLearnerAction(
    ExplorationQuit, actionCustomizationArgs,
    LEARNER_ACTION_SCHEMA_LATEST_VERSION)

NoAction == LearnerActionBase("", "", 0, 0)
NoError == [message |-> "", json |-> <<>>]

\* angular.toJson: the serialized form holds the dictionary's contents by
\* value, the customization args included.
toJson(dict) ==
  <<[action_type |-> dict.action_type,
     action_customization_args |-> argsHeap[dict.action_customization_args],
     schema_version |-> dict.schema_version]>>

Returned(action) == [threw |-> FALSE, action |-> action, error |-> NoError]
Threw(error) == [threw |-> TRUE, action |-> NoAction, error |-> error]

\* Mutant: the default branch falls back to an ExplorationStart action.
createFromBackendDict_Defaults(learnerActionBackendDict) ==
  IF learnerActionBackendDict.action_type = AnswerSubmit THEN
    Returned(AnswerSubmitLearnerAction(
      learnerActionBackendDict.action_type,
      learnerActionBackendDict.action_customization_args,
      learnerActionBackendDict.schema_version))
  ELSE IF learnerActionBackendDict.action_type = ExplorationQuit THEN
    Returned(ExplorationQuitLearnerAction(
      learnerActionBackendDict.action_type,
      learnerActionBackendDict.action_customization_args,
      learnerActionBackendDict.schema_version))
  ELSE
    Returned(ExplorationStartLearnerAction(
      ExplorationStart,
      learnerActionBackendDict.action_customization_args,
      learnerActionBackendDict.schema_version))

\* Mutant: the decoded action is stamped with the latest schema version.
createFromBackendDict_Restamps(learnerActionBackendDict) ==
  IF learnerActionBackendDict.action_type = ExplorationStart THEN
    Returned(ExplorationStartLearnerAction(
      learnerActionBackendDict.action_type,
      learnerActionBackendDict.action_customization_args,
      LEARNER_ACTION_SCHEMA_LATEST_VERSION))
  ELSE IF learnerActionBackendDict.action_type = AnswerSubmit THEN
    Returned(AnswerSubmitLearnerAction(
      learnerActionBackendDict.action_type,
      learnerActionBackendDict.action_customization_args,
      LEARNER_ACTION_SCHEMA_LATEST_VERSION))
  ELSE IF learnerActionBackendDict.action_type = ExplorationQuit THEN
    Returned(ExplorationQuitLearnerAction(
      learnerActionBackendDict.action_type,
      learnerActionBackendDict.action_customization_args,
      LEARNER_ACTION_SCHEMA_LATEST_VERSION))
  ELSE
    Threw([message |-> "Backend dict does not match any known action type: ",
           json |-> toJson(learnerActionBackendDict)])

\* Mutant: the AnswerSubmit case builds the ExplorationQuit class.
createFromBackendDict_WrongClass(learnerActionBackendDict) ==
  IF learnerActionBackendDict.action_type = ExplorationStart THEN
    Returned(ExplorationStartLearnerAction(
      learnerActionBackendDict.action_type,
      learnerActionBackendDict.action_customization_args,
      learnerActionBackendDict.schema_version))
  ELSE IF learnerActionBackendDict.action_type = AnswerSubmit THEN
    Returned(ExplorationQuitLearnerAction(
      learnerActionBackendDict.action_type,
      learnerActionBackendDict.action_customization_args,
      learnerActionBackendDict.schema_version))
  ELSE IF learnerActionBackendDict.action_type = ExplorationQuit THEN
    Returned(ExplorationQuitLearnerAction(
      learnerActionBackendDict.action_type,
      learnerActionBackendDict.action_customization_args,
      learnerActionBackendDict.schema_version))
  ELSE
    Threw([message |-> "Backend dict does not match any known action type: ",
           json |-> toJson(learnerActionBackendDict)])

createFromBackendDict(learnerActionBackendDict) ==
  IF learnerActionBackendDict.action_type = ExplorationStart THEN
    Returned(ExplorationStartLearnerAction(
      learnerActionBackendDict.action_type,
      learnerActionBackendDict.action_customization_args,
      learnerActionBackendDict.schema_version))
  ELSE IF learnerActionBackendDict.action_type = AnswerSubmit THEN
    Returned(AnswerSubmitLearnerAction(
      learnerActionBackendDict.action_type,
      learnerActionBackendDict.action_customization_args,
      learnerActionBackendDict.schema_version))
  ELSE IF learnerActionBackendDict.action_type = ExplorationQuit THEN
    Returned(ExplorationQuitLearnerAction(
      learnerActionBackendDict.action_type,
      learnerActionBackendDict.action_customization_args,
      learnerActionBackendDict.schema_version))
  ELSE
    Threw([message |-> "Backend dict does not match any known action type: ",
           json |-> toJson(learnerActionBackendDict)])

----------------------------------------------------------------------------
(* State.                                                                  *)

Init ==
  /\ latestVersion = MaxVersion
  /\ argsHeap = <<>>
  /\ actions = <<>>
  /\ dicts = <<>>
  /\ actionLog = <<>>
  /\ dictLog = <<>>
  /\ thrown = NoError

Refs == 1..Len(argsHeap)
ActionIds == 1..Len(actions)
DictIds == 1..Len(dicts)

HeapFull == Len(argsHeap) + Len(actions) + Len(dicts) >= MaxObjects

----------------------------------------------------------------------------
(* What the callers do: build objects and mutate the ones they hold.       *)

\* A caller builds a customization-args object literal of some kind's shape.
NewArgs(kind, s, n) ==
  /\ ~HeapFull
  /\ Len(argsHeap) < MaxArgs
  /\ argsHeap' = Append(argsHeap,
       [f \in ActionCustomizationArgs(kind) |->
          Json(1, IF f \in NumberFields THEN Num(n) ELSE Str(s))])
  /\ thrown' = NoError
  /\ UNCHANGED <<latestVersion, actions, dicts, actionLog, dictLog>>

\* A dictionary arrives from the backend (JSON cast to
\* LearnerActionBackendDict, nothing checked at run time).
NewBackendDict(action_type, ref, schema_version) ==
  /\ ~HeapFull
  /\ Cardinality({d \in DictIds : dictLog[d].by = "backend"}) < MaxBackendDicts
  /\ ref \in Refs
  /\ dicts' = Append(dicts,
       [action_type |-> action_type,
        action_customization_args |-> ref,
        schema_version |-> schema_version])
  /\ dictLog' = Append(dictLog, [by |-> "backend", src |-> 0, this |-> NoAction])
  /\ thrown' = NoError
  /\ UNCHANGED <<latestVersion, argsHeap, actions, actionLog>>

\* obj.state_name.value = s, on the customization-args object `ref`.
WriteStateName(ref, s) ==
  /\ argsHeap' = [argsHeap EXCEPT ![ref]["state_name"].leaf = Str(s)]
  /\ thrown' = NoError
  /\ UNCHANGED <<latestVersion, actions, dicts, actionLog, dictLog>>

\* In-place mutation through action.actionCustomizationArgs.
MutateActionArgs(a, s) ==
  /\ a \in ActionIds
  /\ WriteStateName(actions[a].actionCustomizationArgs, s)

\* In-place mutation through dict.action_customization_args.
MutateDictArgs(d, s) ==
  /\ d \in DictIds
  /\ WriteStateName(dicts[d].action_customization_args, s)

\* In-place mutation through the variable of the caller that built the object.
MutateCallerArgs(ref, s) ==
  /\ ref \in Refs
  /\ WriteStateName(ref, s)

ActionFields == {"actionType", "actionCustomizationArgs", "schemaVersion"}

\* The values the static type of an action's field admits.
FieldValues(a, field) ==
  IF field = "actionType" THEN LearnerActionType
  ELSE IF field = "schemaVersion" THEN 1..MaxVersion
  ELSE {ref \in Refs : WellTyped(actions[a].actionType, argsHeap[ref])}

\* action.<field> = value, as far as the field's declaration allows it.
AssignField(a, field, value) ==
  /\ a \in ActionIds
  /\ field \in WritableFields
  /\ value \in FieldValues(a, field)
  /\ actions' = [actions EXCEPT ![a][field] = value]
  /\ thrown' = NoError
  /\ UNCHANGED <<latestVersion, argsHeap, dicts, actionLog, dictLog>>

\* Some assignment to action.<field>.
Assign(a, field) ==
  /\ a \in ActionIds
  /\ \E value \in FieldValues(a, field) : AssignField(a, field, value)

----------------------------------------------------------------------------
(* Calls of the module's functions.                                        *)

Construct(by, src, action) ==
  /\ ~HeapFull
  /\ actions' = Append(actions, action)
  /\ actionLog' = Append(actionLog, [by |-> by, src |-> src, made |-> action])
  /\ thrown' = NoError
  /\ UNCHANGED <<latestVersion, argsHeap, dicts, dictLog>>

CreateNewExplorationStartAction(ref) ==
  /\ ref \in Refs
  /\ WellTyped(ExplorationStart, argsHeap[ref])
  /\ Construct("createNewExplorationStartAction", ref,
               createNewExplorationStartAction(ref))

CreateNewAnswerSubmitAction(ref) ==
  /\ ref \in Refs
  /\ WellTyped(AnswerSubmit, argsHeap[ref])
  /\ Construct("createNewAnswerSubmitAction", ref,
               createNewAnswerSubmitAction(ref))

CreateNewExplorationQuitAction(ref) ==
  /\ ref \in Refs
  /\ WellTyped(ExplorationQuit, argsHeap[ref])
  /\ Construct("createNewExplorationQuitAction", ref,
               createNewExplorationQuitAction(ref))

\* Mutant: the decoder builds a new customization-args object that holds the
\* fields without their {value: ...} wrapper.
CreateFromBackendDict_Unwrapping(d) ==
  /\ d \in DictIds
  /\ LET r == createFromBackendDict(dicts[d]) IN
       IF r.threw
       THEN /\ thrown' = r.error
            /\ UNCHANGED <<latestVersion, argsHeap, actions, dicts, actionLog,
                           dictLog>>
       ELSE LET wire == argsHeap[dicts[d].action_customization_args]
                made == [r.action EXCEPT
                           !.actionCustomizationArgs = Len(argsHeap) + 1]
            IN /\ Len(argsHeap) + Len(actions) + Len(dicts) + 2 <= MaxObjects
               /\ argsHeap' = Append(argsHeap,
                    [f \in DOMAIN wire |-> [wire[f] EXCEPT !.wraps = @ - 1]])
               /\ actions' = Append(actions, made)
               /\ actionLog' = Append(actionLog,
                    [by |-> "createFromBackendDict", src |-> d, made |-> made])
               /\ thrown' = NoError
               /\ UNCHANGED <<latestVersion, dicts, dictLog>>

CreateFromBackendDict(d) ==
  /\ d \in DictIds
  /\ LET r == createFromBackendDict(dicts[d]) IN
       IF r.threw
       THEN /\ thrown' = r.error
            /\ UNCHANGED <<latestVersion, argsHeap, actions, dicts, actionLog,
                           dictLog>>
       ELSE Construct("createFromBackendDict", d, r.action)

\* Mutant: the encoder builds a new customization-args object and wraps
\* each field of the action's in {value: ...}.
ToBackendDict_Wrapping(a) ==
  /\ a \in ActionIds
  /\ Len(argsHeap) + Len(actions) + Len(dicts) + 2 <= MaxObjects
  /\ argsHeap' = Append(argsHeap,
       [f \in DOMAIN argsHeap[actions[a].actionCustomizationArgs] |->
          [argsHeap[actions[a].actionCustomizationArgs][f] EXCEPT !.wraps = @ + 1]])
  /\ dicts' = Append(dicts,
       [toBackendDict(actions[a]) EXCEPT
          !.action_customization_args = Len(argsHeap) + 1])
  /\ dictLog' = Append(dictLog,
       [by |-> "toBackendDict", src |-> a, this |-> actions[a]])
  /\ thrown' = NoError
  /\ UNCHANGED <<latestVersion, actions, actionLog>>

\* Mutant: the encoder returns a copy of the customization-args object.
ToBackendDict_Copying(a) ==
  /\ a \in ActionIds
  /\ Len(argsHeap) + Len(actions) + Len(dicts) + 2 <= MaxObjects
  /\ argsHeap' = Append(argsHeap, argsHeap[actions[a].actionCustomizationArgs])
  /\ dicts' = Append(dicts,
       [toBackendDict(actions[a]) EXCEPT
          !.action_customization_args = Len(argsHeap) + 1])
  /\ dictLog' = Append(dictLog,
       [by |-> "toBackendDict", src |-> a, this |-> actions[a]])
  /\ thrown' = NoError
  /\ UNCHANGED <<latestVersion, actions, actionLog>>

ToBackendDict(a) ==
  /\ a \in ActionIds
  /\ ~HeapFull
  /\ dicts' = Append(dicts, toBackendDict(actions[a]))
  /\ dictLog' = Append(dictLog,
       [by |-> "toBackendDict", src |-> a, this |-> actions[a]])
  /\ thrown' = NoError
  /\ UNCHANGED <<latestVersion, argsHeap, actions, actionLog>>

----------------------------------------------------------------------------

Next ==
  \/ \E kind \in LearnerActionType, s \in {"S1"}, n \in {1500} :
       NewArgs(kind, s, n)
  \/ \E t \in WireActionTypes, ref \in 1..MaxObjects, v \in 1..MaxVersion :
       NewBackendDict(t, ref, v)
  \/ \E a \in 1..MaxObjects, s \in Strings : MutateActionArgs(a, s)
  \/ \E d \in 1..MaxObjects, s \in Strings : MutateDictArgs(d, s)
  \/ \E ref \in 1..MaxObjects, s \in Strings : MutateCallerArgs(ref, s)
  \/ \E a \in 1..MaxObjects, field \in ActionFields : Assign(a, field)
  \/ \E ref \in 1..MaxObjects : CreateNewExplorationStartAction(ref)
  \/ \E ref \in 1..MaxObjects : CreateNewAnswerSubmitAction(ref)
  \/ \E ref \in 1..MaxObjects : CreateNewExplorationQuitAction(ref)
  \/ \E d \in 1..MaxObjects : CreateFromBackendDict(d)
  \/ \E a \in 1..MaxObjects : ToBackendDict(a)

Spec == Init /\ [][Next]_vars

TypeOK ==
  /\ latestVersion \in 1..MaxVersion
  /\ Len(argsHeap) + Len(actions) + Len(dicts) <= MaxObjects
  /\ Len(actionLog) = Len(actions)
  /\ Len(dictLog) = Len(dicts)

----------------------------------------------------------------------------
(* Properties.                                                             *)

Factories ==
  {"createNewExplorationStartAction", "createNewAnswerSubmitAction",
   "createNewExplorationQuitAction"}

\* The actions a factory made, the actions decoded from a dict, and the
\* dicts encoded from an action.
Created == {a \in ActionIds : actionLog[a].by \in Factories}
Decoded == {a \in ActionIds : actionLog[a].by = "createFromBackendDict"}
Encoded == {d \in DictIds : dictLog[d].by = "toBackendDict"}

\* The contents of the customization-args object an action or a dict holds.
ArgsOf(action) == argsHeap[action.actionCustomizationArgs]
WireArgsOf(dict) == argsHeap[dict.action_customization_args]

\* {value: x} around a field, and a field with its {value: ...} removed.
Wrap(json) == [json EXCEPT !.wraps = @ + 1]
Strip(json) == [json EXCEPT !.wraps = @ - 1]

KindOfFactory(by) ==
  IF by = "createNewExplorationStartAction" THEN ExplorationStart
  ELSE IF by = "createNewAnswerSubmitAction" THEN AnswerSubmit
  ELSE ExplorationQuit

ClassOfKind(kind) ==
  IF kind = ExplorationStart THEN "ExplorationStartLearnerAction"
  ELSE IF kind = AnswerSubmit THEN "AnswerSubmitLearnerAction"
  ELSE "ExplorationQuitLearnerAction"

SameAction(x, y) ==
  /\ x.cls = y.cls
  /\ x.actionType = y.actionType
  /\ ArgsOf(x) = ArgsOf(y)
  /\ x.schemaVersion = y.schemaVersion

\* b was decoded from a dict that was encoded from the action a as a factory
\* returned it.
RoundTripChain(a, b) ==
  /\ a \in Created
  /\ b \in Decoded
  /\ actionLog[b].src \in Encoded
  /\ dictLog[actionLog[b].src].src = a
  /\ dictLog[actionLog[b].src].this = actionLog[a].made

\* C1: createFromBackendDict(create<K>(P).toBackendDict()) equals create<K>(P)
\* in actionType, in actionCustomizationArgs and in schemaVersion, for the
\* three kinds.
C1_RoundTrip ==
  \A a \in ActionIds, b \in ActionIds :
    RoundTripChain(a, b) => SameAction(actionLog[b].made, actionLog[a].made)

C1_Witness ==
  \E a \in ActionIds, b \in ActionIds :
    /\ RoundTripChain(a, b)
    /\ actionLog[a].made.schemaVersion > 1

UnknownDicts == {d \in DictIds : dicts[d].action_type \notin LearnerActionType}

\* C2: createFromBackendDict of a dictionary whose action_type is none of
\* the three kinds returns no action and throws an error that carries the
\* serialized dictionary; no action is ever made from such a dictionary.
C2_UnknownRejected ==
  /\ [](\A b \in Decoded : actionLog[b].src \notin UnknownDicts)
  /\ [][\A d \in UnknownDicts :
          CreateFromBackendDict(d) =>
            /\ actions' = actions
            /\ thrown'.message =
                 "Backend dict does not match any known action type: "
            /\ thrown'.json = toJson(dicts[d])]_vars

C2_Witness ==
  \E d \in UnknownDicts :
    /\ thrown.json = toJson(dicts[d])
    /\ dicts[d].action_type = "Unknown"

\* C3: an action returned by a factory entry point carries the latest schema
\* version and the kind (and class) that entry point fixes.
C3_VersionStamping ==
  \A a \in Created :
    /\ actionLog[a].made.schemaVersion = LEARNER_ACTION_SCHEMA_LATEST_VERSION
    /\ actionLog[a].made.actionType = KindOfFactory(actionLog[a].by)
    /\ actionLog[a].made.cls = ClassOfKind(KindOfFactory(actionLog[a].by))

C3_Witness ==
  /\ latestVersion > 1
  /\ \E a \in Created : actionLog[a].by = "createNewAnswerSubmitAction"

\* C4: createFromBackendDict(d).schemaVersion is d.schema_version, whatever
\* the latest schema version is.
C4_VersionPreservation ==
  \A b \in Decoded :
    actionLog[b].made.schemaVersion = dicts[actionLog[b].src].schema_version

C4_Witness ==
  \E b \in Decoded :
    dicts[actionLog[b].src].schema_version # latestVersion

\* C5 as claimed: toBackendDict returns the action's tag, its stored schema
\* version, and its payload with each field wrapped as {value: field}.
C5_EncodeWraps ==
  \A d \in Encoded :
    /\ dicts[d].action_type = dictLog[d].this.actionType
    /\ dicts[d].schema_version = dictLog[d].this.schemaVersion
    /\ WireArgsOf(dicts[d]) =
         [f \in DOMAIN ArgsOf(dictLog[d].this) |-> Wrap(ArgsOf(dictLog[d].this)[f])]

\* C5 amended: toBackendDict returns the action's tag, its stored schema
\* version, and the action's own customization-args object as it is: the
\* fields are {value: ...} objects already and nothing is wrapped again.
C5_EncodePassesArgs ==
  \A d \in Encoded :
    /\ dicts[d].action_type = dictLog[d].this.actionType
    /\ dicts[d].schema_version = dictLog[d].this.schemaVersion
    /\ dicts[d].action_customization_args =
         dictLog[d].this.actionCustomizationArgs
    /\ \A f \in DOMAIN WireArgsOf(dicts[d]) :
         WireArgsOf(dicts[d])[f].wraps = ArgsOf(dictLog[d].this)[f].wraps

C5_Witness ==
  \E d \in Encoded :
    /\ dictLog[d].this.schemaVersion > 1
    /\ \A f \in DOMAIN WireArgsOf(dicts[d]) : WireArgsOf(dicts[d])[f].wraps = 1

\* C6 as claimed: the payload of createFromBackendDict(d) holds each field of
\* d.action_customization_args with the {value: ...} wrapper removed.
C6_DecodeUnwraps ==
  \A b \in Decoded :
    /\ DOMAIN ArgsOf(actionLog[b].made) = DOMAIN WireArgsOf(dicts[actionLog[b].src])
    /\ \A f \in DOMAIN ArgsOf(actionLog[b].made) :
         ArgsOf(actionLog[b].made)[f] = Strip(WireArgsOf(dicts[actionLog[b].src])[f])

\* C6 amended: the payload of createFromBackendDict(d) is
\* d.action_customization_args itself: each field is still the wire's
\* {value: ...} object, wrapper included.
C6_DecodeKeepsWrapper ==
  \A b \in Decoded :
    /\ actionLog[b].made.actionCustomizationArgs =
         dicts[actionLog[b].src].action_customization_args
    /\ \A f \in DOMAIN ArgsOf(actionLog[b].made) :
         ArgsOf(actionLog[b].made)[f] = WireArgsOf(dicts[actionLog[b].src])[f]

C6_Witness ==
  \E b \in Decoded :
    /\ "state_name" \in DOMAIN ArgsOf(actionLog[b].made)
    /\ ArgsOf(actionLog[b].made)["state_name"] = Json(1, Str("S1"))

\* C7 as claimed: whatever its holder does, an action's actionType and
\* schemaVersion stay the values it was created with.
C7_TagAndVersionFixed ==
  \A a \in ActionIds :
    /\ actions[a].actionType = actionLog[a].made.actionType
    /\ actions[a].schemaVersion = actionLog[a].made.schemaVersion

\* C7 amended: whatever its holder does, an action's actionType (and class)
\* stays the value it was created with; schemaVersion and
\* actionCustomizationArgs can both be assigned.
C7_TagFixed ==
  \A a \in ActionIds :
    /\ actions[a].actionType = actionLog[a].made.actionType
    /\ actions[a].cls = actionLog[a].made.cls

C7_Witness ==
  \E a \in ActionIds :
    /\ actions[a].schemaVersion # actionLog[a].made.schemaVersion
    /\ actions[a].actionType = actionLog[a].made.actionType

Agrees(kind, args) == DOMAIN args = ActionCustomizationArgs(kind)

WireRoundTripChain(d, d2) ==
  /\ d \in DictIds
  /\ d2 \in Encoded
  /\ dictLog[d2].src \in Decoded
  /\ actionLog[dictLog[d2].src].src = d
  /\ dictLog[d2].this = actionLog[dictLog[d2].src].made

\* C9: for a dictionary d of a known kind, createFromBackendDict(d)
\* .toBackendDict() equals d in action_type, action_customization_args and
\* schema_version, and the decoded action has d's action_type and that
\* kind's class.
C9_WireRoundTrip ==
  \A d \in DictIds, d2 \in DictIds :
    WireRoundTripChain(d, d2) =>
      /\ dicts[d2].action_type = dicts[d].action_type
      /\ WireArgsOf(dicts[d2]) = WireArgsOf(dicts[d])
      /\ dicts[d2].schema_version = dicts[d].schema_version
      /\ dictLog[d2].this.actionType = dicts[d].action_type
      /\ dictLog[d2].this.cls = ClassOfKind(dicts[d].action_type)

C9_Witness ==
  \E d \in DictIds, d2 \in DictIds :
    /\ WireRoundTripChain(d, d2)
    /\ dicts[d].schema_version # latestVersion
    /\ dicts[d].action_type = AnswerSubmit

\* The customization-args object `ref` is written in this step.
Written(ref) == argsHeap'[ref] # argsHeap[ref]

\* C10 as claimed: after d = a.toBackendDict(), a = createFromBackendDict(d)
\* or a = create<K>(P), an in-place mutation of a's payload leaves d's
\* payload (the caller's P) unchanged.
C10_ExclusivePayload ==
  [][/\ \A d \in Encoded :
          Written(actions[dictLog[d].src].actionCustomizationArgs) =>
            ~Written(dicts[d].action_customization_args)
     /\ \A b \in Decoded :
          Written(actions[b].actionCustomizationArgs) =>
            ~Written(dicts[actionLog[b].src].action_customization_args)
     /\ \A a \in Created :
          Written(actions[a].actionCustomizationArgs) =>
            ~Written(actionLog[a].src)]_vars

\* No call changes an object that existed before it.
CallsChangeNothing ==
  (Len(actions') # Len(actions) \/ Len(dicts') # Len(dicts) \/ thrown' # NoError) =>
    /\ argsHeap' = argsHeap
    /\ SubSeq(actions', 1, Len(actions)) = actions
    /\ SubSeq(dicts', 1, Len(dicts)) = dicts

\* Every result holds the very customization-args object of its input.
ArgsShared ==
  /\ \A a \in Created :
       actionLog[a].made.actionCustomizationArgs = actionLog[a].src
  /\ \A b \in Decoded :
       actionLog[b].made.actionCustomizationArgs =
         dicts[actionLog[b].src].action_customization_args
  /\ \A d \in Encoded :
       dicts[d].action_customization_args =
         dictLog[d].this.actionCustomizationArgs

\* C10 amended: the factories, createFromBackendDict and toBackendDict
\* change no existing object, and they copy nothing: the result holds the
\* very customization-args object of its input (the caller's P, d's, a's),
\* so an in-place mutation through one holder is seen through the others.
C10_SharedPayload ==
  /\ []ArgsShared
  /\ [][CallsChangeNothing]_vars

C10_Witness ==
  \E d \in Encoded :
    /\ dictLog[d].src \in Created
    /\ actions[dictLog[d].src].actionCustomizationArgs =
         dicts[d].action_customization_args
    /\ WireArgsOf(dicts[d])["state_name"] = Json(1, Str("S2"))

====
